---- MODULE Spec2Model ----
(***************************************************************************)
(* Device pairing and authentication of an OpenClaw gateway client         *)
(* (device_auth.py): the credential store, the connect handshake,          *)
(* bootstrap (first-use pairing) and connect (token rotation).             *)
(***************************************************************************)
EXTENDS Integers, Sequences, FiniteSets, TLC

\* ------------------------------------------------------------------ bounds
MaxOps == 3        \* public operations (bootstrap / connect calls) per run
MaxChans == 2      \* channels websockets.connect opens per run; past it, it fails
MaxClock == 1      \* wall-clock readings, in milliseconds, 0..MaxClock
MaxDiscard == 1    \* inbound messages one handshake phase discards
NumCallers == 2    \* concurrent callers of one RpcTransport
MaxCalls == 3      \* logical calls the callers make between them
MaxFaults == 2     \* drops, elapsed waits and failed handshakes per run
MaxLog == 2        \* log entries of one session file
MaxLimit == 2      \* the limit argument of get_session_logs, 0..MaxLimit
MaxElapsed == 12   \* time units one receive loop is followed for
MaxDay == 41       \* dates of a query are the days 0..MaxDay of the calendar below
MaxSpan == 8       \* days between the start and the end date of a query

\* ------------------------------------------------------- python / json values
None == "<None>"
Truthy(s) == s # None /\ s # ""
EmptyDict == <<>>
Get(d, k, default) == IF k \in DOMAIN d THEN d[k] ELSE default
PyStr(v) == IF v = None THEN "None" ELSE v

RECURSIVE Join(_, _)
Join(seq, sep) ==
    IF seq = <<>> THEN ""
    ELSE IF Len(seq) = 1 THEN seq[1]
    ELSE seq[1] \o sep \o Join(Tail(seq), sep)

\* ---------------------------------------------------------------- constants
SCOPES == <<"operator.read">>
CLIENT_ID == "gateway-client"
CLIENT_MODE == "backend"

\* ------------------------------------------------------------- cryptography
\* Keys are opaque; every primitive is an injective function of its inputs.
\* The i-th key drawn is "k<i>": a fresh key equals no key drawn before.
Key(i) == "k" \o ToString(i)
Keys == {Key(i) : i \in 1..(MaxOps + 1)}
RawPublicKey(k) == "pub(" \o k \o ")"
Sha256Hex(bytes) == "sha256(" \o bytes \o ")"
PrivatePem(k) == "pem(" \o k \o ")"
B64Url(bytes) == "b64(" \o bytes \o ")"
Ed25519Sign(k, message) == "sig(" \o k \o ";" \o message \o ")"
Ed25519Verify(pub, message, sig) ==
    \E k \in Keys : RawPublicKey(k) = pub /\ sig = Ed25519Sign(k, message)

\* DeviceCredentials.generate, for the private key k the generator drew
generate(k) ==
    [device_id |-> Sha256Hex(RawPublicKey(k)),
     private_key_pem |-> PrivatePem(k),
     token |-> None]

\* DeviceCredentials._private_key
_private_key(c) == CHOOSE k \in Keys : PrivatePem(k) = c.private_key_pem

\* DeviceCredentials.public_key_b64url
public_key_b64url(c) == B64Url(RawPublicKey(_private_key(c)))

\* the payload string DeviceCredentials.sign builds
sign_payload(c, scopes, signed_at_ms, auth_token) ==
    "v1|" \o c.device_id \o "|" \o CLIENT_ID \o "|" \o CLIENT_MODE \o "|operator|"
      \o Join(scopes, ",") \o "|" \o ToString(signed_at_ms) \o "|" \o auth_token

\* DeviceCredentials.sign
sign(c, scopes, signed_at_ms, auth_token) ==
    B64Url(Ed25519Sign(_private_key(c), sign_payload(c, scopes, signed_at_ms, auth_token)))

\* DeviceCredentials.to_dict / from_dict
to_dict(c) ==
    [deviceId |-> c.device_id, privateKeyPem |-> c.private_key_pem, token |-> c.token]
from_dict(d) ==
    [device_id |-> d.deviceId,
     private_key_pem |-> d.privateKeyPem,
     token |-> Get(d, "token", None)]

\* ------------------------------------------------------- credential store
\* The file at credentials_path: <<>> when absent, <<dict>> when present.
\* variant: the file is never found
load_credentials_absent(file) == <<>>
load_credentials(file) == IF file = <<>> THEN <<>> ELSE <<from_dict(file[1])>>
save_credentials(c) == <<to_dict(c)>>

\* --------------------------------------------------------- gateway config
\* env: OPENCLAW_GATEWAY_TOKEN (None when unset); cfg: openclaw.json
\* (<<>> when the file is absent, <<dict>> otherwise).
NoError == [type |-> None, msg |-> None]
RuntimeError(m) == [type |-> "RuntimeError", msg |-> m]
TimeoutError == [type |-> "TimeoutError", msg |-> ""]
ConnectionClosed == [type |-> "ConnectionClosed", msg |-> ""]
OSError == [type |-> "OSError", msg |-> ""]

ConfigNotFoundMsg == "[device_auth] openclaw config not found"
TokenNotFoundMsg == "[device_auth] gateway.auth.token not found in openclaw.json"
PairingIncompleteMsg == "[device_auth] Gateway did not issue a device token after connect"
NoDeviceTokenMsg == "[device_auth] No device token stored. Run bootstrap() first."
ConnectFailedMsg(detail) == "Connect failed: " \o PyStr(detail)

\* variant: the config file's token is handed on without the "if not token" check
_read_gateway_auth_token_unchecked(env, cfg) ==
    IF Truthy(env) THEN [ok |-> TRUE, token |-> env, err |-> NoError]
    ELSE IF cfg = <<>>
    THEN [ok |-> FALSE, token |-> None, err |-> RuntimeError(ConfigNotFoundMsg)]
    ELSE [ok |-> TRUE,
          token |-> Get(Get(Get(cfg[1], "gateway", EmptyDict), "auth", EmptyDict),
                        "token", None),
          err |-> NoError]
_read_gateway_auth_token(env, cfg) ==
    IF Truthy(env) THEN [ok |-> TRUE, token |-> env, err |-> NoError]
    ELSE IF cfg = <<>>
    THEN [ok |-> FALSE, token |-> None, err |-> RuntimeError(ConfigNotFoundMsg)]
    ELSE LET token == Get(Get(Get(cfg[1], "gateway", EmptyDict), "auth", EmptyDict),
                          "token", None)
         IN  IF ~Truthy(token)
             THEN [ok |-> FALSE, token |-> None, err |-> RuntimeError(TokenNotFoundMsg)]
             ELSE [ok |-> TRUE, token |-> token, err |-> NoError]

\* ------------------------------------------------------------ wire messages
DeviceTokens == {"dev-1", "dev-2"}
ErrorDetails == {"unauthorized"}
StaleId == "req-0"
ChallengeEvent == [type |-> "event", event |-> "connect.challenge"]
OtherEvent == [type |-> "event", event |-> "presence"]
ResMsgs(id) ==
    {[type |-> "res", id |-> id, ok |-> TRUE],
     [type |-> "res", id |-> id, ok |-> TRUE, payload |-> EmptyDict],
     [type |-> "res", id |-> id, ok |-> FALSE],
     [type |-> "res", id |-> id]}
    \cup {[type |-> "res", id |-> id, ok |-> TRUE,
           payload |-> [auth |-> [deviceToken |-> t]]] : t \in DeviceTokens \cup {""}}
    \cup {[type |-> "res", id |-> id, ok |-> FALSE, error |-> e] : e \in ErrorDetails}
\* what the gateway may deliver while request rid is outstanding (None: none is)
Inbound(rid) ==
    {ChallengeEvent, OtherEvent} \cup ResMsgs(StaleId)
    \cup (IF rid = None THEN {} ELSE ResMsgs(rid))

\* variant: any event is taken for the challenge
IsChallenge_any_event(msg) == Get(msg, "type", None) = "event"
IsChallenge(msg) ==
    Get(msg, "type", None) = "event" /\ Get(msg, "event", None) = "connect.challenge"
IsResponseTo(msg, req_id) ==
    Get(msg, "type", None) = "res" /\ Get(msg, "id", None) = req_id
MsgOk(msg) == "ok" \in DOMAIN msg /\ msg.ok = TRUE
IssuedToken(msg) ==
    Get(Get(Get(msg, "payload", EmptyDict), "auth", EmptyDict), "deviceToken", None)

\* what a message is on the wire, with request rid outstanding (None: none is)
WireKind(msg, rid) ==
    IF "type" \in DOMAIN msg /\ msg.type = "event"
       /\ "event" \in DOMAIN msg /\ msg.event = "connect.challenge"
    THEN "challenge"
    ELSE IF "type" \in DOMAIN msg /\ msg.type = "res"
            /\ "id" \in DOMAIN msg /\ msg.id = rid
    THEN "response"
    ELSE "other"

\* the connect request _handshake sends
ConnectRequest(req_id, c, scopes, auth_token, signed_at_ms, signature) ==
    [type |-> "req", id |-> req_id, method |-> "connect",
     params |-> [minProtocol |-> 3, maxProtocol |-> 3,
                 client |-> [id |-> CLIENT_ID, version |-> "1.0",
                             platform |-> "linux", mode |-> CLIENT_MODE],
                 role |-> "operator",
                 scopes |-> scopes,
                 auth |-> [token |-> auth_token],
                 device |-> [id |-> c.device_id,
                             publicKey |-> public_key_b64url(c),
                             signature |-> signature,
                             signedAt |-> signed_at_ms]]]

\* -------------------------------------------------------------------- state
VARIABLES
    store,      \* the credentials file: <<>> or <<dict>>
    envToken,   \* OPENCLAW_GATEWAY_TOKEN, None when unset
    config,     \* openclaw.json: <<>> or <<dict>>
    clock,      \* time.time() in milliseconds
    op,         \* the public operation called last: "none", "bootstrap", "connect"
    pc,         \* where that call stands: "idle" once it has returned or raised
    held,       \* the DeviceCredentials object the caller holds: <<>> or <<creds>>
    frame,      \* the locals of the running call and of its _handshake
    chans,      \* every channel opened so far: "open" or "closed"
    sent,       \* every connect request sent so far, with its signed payload
    outcome,    \* how the last call ended
    nOps,       \* calls made so far
    nKeys,      \* private keys drawn so far, the stored one included
    expectTok,  \* history: the token the held credentials should carry: the one
                \* stored when they were loaded, or the last one issued to them
    lastRes,    \* history: the matching response the running call read, or <<>>
    latestIssued, \* history: the device token a handshake was issued last
    lastIn      \* history: what the running call read last: "none", "challenge",
                \* "response" (to its request) or "other"

authvars == <<store, envToken, config, clock, op, pc, held, frame, chans, sent,
              outcome, nOps, nKeys, expectTok, lastRes, latestIssued, lastIn>>

\* RpcTransport (spec section 4.5): one transport and its callers
VARIABLES
    tstate,     \* "Disconnected", "Connecting" or "Connected"
    lockHolder, \* the caller inside the connect region, 0 when it is free
    phys,       \* every physical channel the transport opened: "open" or "closed"
    handshakes, \* connect-plus-handshake sequences performed so far
    pending,    \* the pending table: the ids of the outstanding requests
    slots,      \* per request id, its result slot: state and times resolved
    cpc,        \* per caller, where its call stands
    cattempt,   \* per caller, the physical attempt of its logical call
    cid,        \* per caller, the id of the request it awaits
    cresult,    \* per caller, the result of its last call
    ccalls,     \* the logical calls begun so far
    faults      \* drops, elapsed waits and failed handshakes so far

rpcvars == <<tstate, lockHolder, phys, handshakes, pending, slots, cpc, cattempt, cid,
             cresult, ccalls, faults>>

\* the query tools of server.py over the session files under AGENTS_DIR
VARIABLES
    fs,         \* the session files: path -> content, over the paths that exist
    listed,     \* history: the session entries list_sessions returned last, each
                \* with the file it was parsed from
    logsOut     \* the result of the last get_session_logs call, <<>> before any

qvars == <<fs, listed, logsOut>>

\* one handshake attempt's receive loops against the time that passes
VARIABLES
    wphase,     \* "challenge", "response" (the loop that runs), "done" or "timeout"
    wrecv,      \* time units the current ws.recv() has waited
    welapsed    \* time units since the running loop began

waitvars == <<wphase, wrecv, welapsed>>

\* one get_usage / list_sessions query over a scanned session
VARIABLES
    qstart,     \* start date of the query, a day number
    qend,       \* end date of the query
    qperiod,    \* "day", "week" or "month"
    sessionAt,  \* the start_time of the one session on disk, in clock ticks
    periodsOut  \* <<>>, or the periods of the last query with the sessions in each

bucketvars == <<qstart, qend, qperiod, sessionAt, periodsOut>>

vars == <<authvars, rpcvars, qvars, waitvars, bucketvars>>
notauth == <<rpcvars, qvars, waitvars, bucketvars>>
notrpc == <<authvars, qvars, waitvars, bucketvars>>
notquery == <<authvars, rpcvars, waitvars, bucketvars>>
notwait == <<authvars, rpcvars, qvars, bucketvars>>
notbucket == <<authvars, rpcvars, qvars, waitvars>>

Callers == 1..NumCallers
RpcInit ==
    /\ tstate = "Disconnected"
    /\ lockHolder = 0
    /\ phys = <<>>
    /\ handshakes = 0
    /\ pending = {}
    /\ slots = <<>>
    /\ cpc = [c \in Callers |-> "idle"]
    /\ cattempt = [c \in Callers |-> 0]
    /\ cid = [c \in Callers |-> 0]
    /\ cresult = [c \in Callers |-> "none"]
    /\ ccalls = 0
    /\ faults = 0

NoCreds == [device_id |-> None, private_key_pem |-> None, token |-> None]
NoFrame == [creds |-> NoCreds, auth_token |-> None, ws |-> 0, req_id |-> None, ndisc |-> 0]
NoOutcome == [status |-> "none", err |-> NoError, creds |-> <<>>, ws |-> 0, path |-> "none"]
Returned(credsOpt, ws, path) ==
    [status |-> "returned", err |-> NoError, creds |-> credsOpt, ws |-> ws, path |-> path]
Raised(err, path) ==
    [status |-> "raised", err |-> err, creds |-> <<>>, ws |-> 0, path |-> path]

Envs == {None, "", "shared-env"}
Configs ==
    {<<>>, <<EmptyDict>>, <<[gateway |-> [auth |-> EmptyDict]]>>,
     <<[gateway |-> [auth |-> [token |-> ""]]]>>,
     <<[gateway |-> [auth |-> [token |-> "shared-cfg"]]]>>}
\* a store a previous run's bootstrap left behind
StoredToken == "dev-0"
\* ... or a caller's save_credentials of unpaired credentials (token null), or a
\* file without the token key, which from_dict reads as None
Stores ==
    {<<>>,
     save_credentials([generate(Key(1)) EXCEPT !.token = StoredToken]),
     save_credentials(generate(Key(1))),
     <<[deviceId |-> generate(Key(1)).device_id,
        privateKeyPem |-> generate(Key(1)).private_key_pem]>>}

\* The environment is read on an empty store only, and nothing empties a store;
\* the config file is read only when the environment variable yields nothing.
\* What is never read is left unset.
AuthInit ==
    /\ store \in Stores
    /\ envToken \in (IF store = <<>> THEN Envs ELSE {None})
    /\ config \in (IF store = <<>> /\ ~Truthy(envToken) THEN Configs ELSE {<<>>})
    /\ clock = 0
    /\ op = "none"
    /\ pc = "idle"
    /\ held = <<>>
    /\ frame = NoFrame
    /\ chans = <<>>
    /\ sent = <<>>
    /\ outcome = NoOutcome
    /\ nOps = 0
    /\ nKeys = IF store = <<>> THEN 0 ELSE 1
    /\ expectTok = None
    /\ lastRes = <<>>
    /\ latestIssued = None
    /\ lastIn = "none"

\* no session file, no query made
QueryInit == fs = <<>> /\ listed = {} /\ logsOut = <<>>
\* no attempt timed
WaitInit == wphase = "done" /\ wrecv = 0 /\ welapsed = 0
\* no period query made
BucketInit ==
    qstart = 0 /\ qend = 0 /\ qperiod = "day" /\ sessionAt = 0 /\ periodsOut = <<>>

Init == AuthInit /\ RpcInit /\ QueryInit /\ WaitInit /\ BucketInit

\* the credentials _handshake was given: bootstrap's fresh ones, or the caller's
HsCreds == IF op = "bootstrap" THEN frame.creds ELSE held[1]
Close(ws) == [chans EXCEPT ![ws] = "closed"]

\* ------------------------------------------------------------------ actions
\* bootstrap(), up to its first await (websockets.connect)
bootstrap_call ==
    /\ pc = "idle" /\ nOps < MaxOps
    /\ nOps' = nOps + 1
    /\ op' = "bootstrap"
    /\ LET creds == load_credentials(store) IN
       IF creds # <<>>
       THEN /\ pc' = "idle"
            /\ held' = creds
            /\ outcome' = Returned(creds, 0, "loaded")
            /\ expectTok' = Get(store[1], "token", None)
            /\ UNCHANGED <<frame, store, nKeys>>
       ELSE LET gateway_token == _read_gateway_auth_token(envToken, config) IN
            /\ nKeys' = nKeys + 1
            /\ IF ~gateway_token.ok
               THEN /\ pc' = "idle"
                    /\ outcome' = Raised(gateway_token.err, "config")
                    /\ UNCHANGED <<frame, store, held, expectTok>>
               ELSE /\ pc' = "connecting"
                    /\ frame' = [NoFrame EXCEPT !.creds = generate(Key(nKeys + 1)),
                                                !.auth_token = gateway_token.token]
                    /\ UNCHANGED <<outcome, store, held, expectTok>>
    /\ lastRes' = <<>>
    /\ UNCHANGED <<envToken, config, clock, chans, sent, latestIssued>>
    /\ lastIn' = "none"
    /\ UNCHANGED notauth

\* variant: connect() authenticates with the token on disk
connect_auth_token_stored(c) == IF store = <<>> THEN c.token ELSE store[1].token
\* connect(): the auth_token it hands to _handshake
connect_auth_token(c) == c.token

\* connect(creds), up to its first await
connect_call ==
    /\ pc = "idle" /\ nOps < MaxOps
    /\ held # <<>>
    /\ nOps' = nOps + 1
    /\ op' = "connect"
    /\ IF ~Truthy(held[1].token)
       THEN /\ pc' = "idle"
            /\ outcome' = Raised(RuntimeError(NoDeviceTokenMsg), "no_token")
            /\ UNCHANGED frame
       ELSE /\ pc' = "connecting"
            /\ frame' = [NoFrame EXCEPT !.auth_token = connect_auth_token(held[1])]
            /\ UNCHANGED outcome
    /\ lastRes' = <<>>
    /\ UNCHANGED <<store, envToken, config, clock, held, chans, sent, nKeys,
                   expectTok, latestIssued>>
    /\ lastIn' = "none"
    /\ UNCHANGED notauth

\* _handshake: websockets.connect succeeds
ws_connect ==
    /\ pc = "connecting"
    /\ Len(chans) < MaxChans
    /\ chans' = Append(chans, "open")
    /\ frame' = [frame EXCEPT !.ws = Len(chans) + 1]
    /\ pc' = "await_challenge"
    /\ UNCHANGED <<store, envToken, config, clock, op, held, sent, outcome, nOps,
                   nKeys, expectTok, lastRes, latestIssued>>
    /\ UNCHANGED lastIn
    /\ UNCHANGED notauth

\* _handshake: websockets.connect raises; no channel exists
ws_connect_fail ==
    /\ pc = "connecting"
    /\ pc' = "idle"
    /\ frame' = NoFrame
    /\ outcome' = Raised(OSError, "connect")
    /\ UNCHANGED <<store, envToken, config, clock, op, held, chans, sent, nOps,
                   nKeys, expectTok, lastRes, latestIssued>>
    /\ UNCHANGED lastIn
    /\ UNCHANGED notauth

\* variant: the timestamp in whole seconds
signed_at_seconds(clk) == clk \div 1000
\* int(time.time() * 1000)
signed_at_ms_now(clk) == clk

\* _handshake, first loop: one message read while waiting for the challenge,
\* then (on the challenge) the signed connect request
recv_challenge_phase(msg) ==
    /\ pc = "await_challenge"
    /\ chans[frame.ws] = "open"
    /\ IF IsChallenge(msg)
       THEN LET signed_at_ms == signed_at_ms_now(clock)
                signature == sign(HsCreds, SCOPES, signed_at_ms, frame.auth_token)
                req_id == "req-" \o ToString(Len(sent) + 1)
            IN  /\ sent' = Append(sent,
                      [chan |-> frame.ws,
                       msg |-> ConnectRequest(req_id, HsCreds, SCOPES, frame.auth_token,
                                              signed_at_ms, signature),
                       payload |-> sign_payload(HsCreds, SCOPES, signed_at_ms,
                                                frame.auth_token),
                       clockAt |-> clock])
                /\ frame' = [frame EXCEPT !.req_id = req_id, !.ndisc = 0]
                /\ pc' = "await_response"
       ELSE /\ frame.ndisc < MaxDiscard
            /\ frame' = [frame EXCEPT !.ndisc = @ + 1]
            /\ UNCHANGED <<sent, pc>>
    /\ UNCHANGED <<store, envToken, config, clock, op, held, chans, outcome, nOps,
                   nKeys, expectTok, lastRes, latestIssued>>
    /\ lastIn' = WireKind(msg, None)
    /\ UNCHANGED notauth

\* asyncio.wait_for elapses in either loop; the channel is left as it is
recv_timeout ==
    /\ pc \in {"await_challenge", "await_response"}
    /\ chans[frame.ws] = "open"
    /\ pc' = "idle"
    /\ frame' = NoFrame
    /\ outcome' = Raised(TimeoutError, pc)
    /\ UNCHANGED <<store, envToken, config, clock, op, held, chans, sent, nOps,
                   nKeys, expectTok, lastRes, latestIssued>>
    /\ UNCHANGED lastIn
    /\ UNCHANGED notauth

\* the peer closes the channel while _handshake waits: recv raises
peer_close ==
    /\ pc \in {"await_challenge", "await_response"}
    /\ chans[frame.ws] = "open"
    /\ chans' = Close(frame.ws)
    /\ pc' = "idle"
    /\ frame' = NoFrame
    /\ outcome' = Raised(ConnectionClosed, pc)
    /\ UNCHANGED <<store, envToken, config, clock, op, held, sent, nOps, nKeys, expectTok,
                   lastRes, latestIssued>>
    /\ UNCHANGED lastIn
    /\ UNCHANGED notauth

\* variant: connect() drops the issued token
connect_update_dropped(c, issued_token) == c
\* connect(): creds.token after a handshake that issued issued_token
connect_update(c, issued_token) ==
    IF Truthy(issued_token) THEN [c EXCEPT !.token = issued_token] ELSE c

\* bootstrap(): the credentials it completes with issued_token
bootstrap_complete(c, issued_token) == [c EXCEPT !.token = issued_token]

\* variant: bootstrap() saves the credentials as generated, before the token is set
bootstrap_persist_untokened(c) == save_credentials([c EXCEPT !.token = None])
\* bootstrap(): the file after save_credentials(creds, credentials_path)
bootstrap_persist(c) == save_credentials(c)

\* variant: the rejection is raised with the channel left open
handshake_reject_unclosed(ws) == chans
\* _handshake: the channel after the ws.close() that precedes "Connect failed"
handshake_reject(ws) == Close(ws)

\* bootstrap(): the channel after the ws.close() that follows its handshake
bootstrap_close(ws) == Close(ws)

\* variant: "if issued_token is None"
token_missing_is_none(issued_token) == issued_token = None
\* bootstrap(): "if not issued_token"
token_missing(issued_token) == ~Truthy(issued_token)

\* _handshake, second loop: one message read while waiting for the response,
\* and on the matching response the rest of bootstrap() or connect()
recv_response_phase(msg) ==
    /\ pc = "await_response"
    /\ chans[frame.ws] = "open"
    /\ IF IsResponseTo(msg, frame.req_id)
       THEN /\ lastRes' = msg
            /\ pc' = "idle"
            /\ frame' = NoFrame
            /\ IF ~MsgOk(msg)
               THEN /\ chans' = handshake_reject(frame.ws)
                    /\ outcome' = Raised(RuntimeError(ConnectFailedMsg(
                                             Get(msg, "error", None))), "rejected")
                    /\ UNCHANGED <<store, held, expectTok, latestIssued>>
               ELSE LET issued_token == IssuedToken(msg) IN
                    /\ latestIssued' = IF Truthy(issued_token) THEN issued_token
                                       ELSE latestIssued
                    /\ IF op = "bootstrap"
                       THEN /\ chans' = bootstrap_close(frame.ws)
                            /\ IF token_missing(issued_token)
                               THEN /\ outcome' = Raised(RuntimeError(PairingIncompleteMsg),
                                                         "pairing_incomplete")
                                    /\ UNCHANGED <<store, held, expectTok>>
                               ELSE LET c == bootstrap_complete(frame.creds, issued_token)
                                    IN  /\ store' = bootstrap_persist(c)
                                        /\ held' = <<c>>
                                        /\ outcome' = Returned(<<c>>, 0, "paired")
                                        /\ expectTok' = issued_token
                       ELSE /\ held' = <<connect_update(held[1], issued_token)>>
                            /\ outcome' = Returned(<<>>, frame.ws, "connected")
                            /\ expectTok' = IF Truthy(issued_token) THEN issued_token
                                            ELSE expectTok
                            /\ UNCHANGED <<store, chans>>
       ELSE /\ frame.ndisc < MaxDiscard
            /\ frame' = [frame EXCEPT !.ndisc = @ + 1]
            /\ UNCHANGED <<store, held, chans, pc, outcome, expectTok, lastRes,
                           latestIssued>>
    /\ UNCHANGED <<envToken, config, clock, op, sent, nOps, nKeys>>
    /\ lastIn' = WireKind(msg, frame.req_id)
    /\ UNCHANGED notauth

\* the wall clock advances by a millisecond
tick ==
    /\ clock < MaxClock
    /\ clock' = clock + 1
    /\ UNCHANGED <<store, envToken, config, op, pc, held, frame, chans, sent, outcome,
                   nOps, nKeys, expectTok, lastRes, latestIssued>>
    /\ UNCHANGED lastIn
    /\ UNCHANGED notauth

\* the wall clock is set back by a millisecond (time.time() is not monotonic)
clock_set_back ==
    /\ clock > 0
    /\ clock' = clock - 1
    /\ UNCHANGED <<store, envToken, config, op, pc, held, frame, chans, sent, outcome,
                   nOps, nKeys, expectTok, lastRes, latestIssued>>
    /\ UNCHANGED lastIn
    /\ UNCHANGED notauth

Next ==
    \/ bootstrap_call
    \/ connect_call
    \/ ws_connect
    \/ ws_connect_fail
    \/ \E msg \in Inbound(None) : recv_challenge_phase(msg)
    \/ recv_timeout
    \/ peer_close
    \/ \E msg \in Inbound(frame.req_id) : recv_response_phase(msg)
    \/ tick
    \/ clock_set_back

Spec == Init /\ [][Next]_vars

\* ------------------------------------------------------------ RpcTransport
\* physical attempts one logical call makes: the first and one retry
MaxAttempts == 2

UnsetSlot == [state |-> "unset", n |-> 0]
CurrentOpen == phys # <<>> /\ phys[Len(phys)] = "open"

\* variant: the table is emptied with its requests left unresolved
resolve_all_dropped(sl, pend) == sl
\* every request of the pending table resolved with the connection-closed error
resolve_all_closed(sl, pend) ==
    [i \in DOMAIN sl |->
        IF i \in pend THEN [state |-> "closed", n |-> sl[i].n + 1] ELSE sl[i]]

\* the transport goes back to Disconnected: the channel is closed, every pending
\* request is resolved with connection-closed, the table is emptied
teardown ==
    /\ tstate' = "Disconnected"
    /\ phys' = [phys EXCEPT ![Len(phys)] = "closed"]
    /\ slots' = resolve_all_closed(slots, pending)
    /\ pending' = {}

\* variant: every connection-level failure is retried
retry_or_fail_unbounded(c) ==
    /\ cattempt' = [cattempt EXCEPT ![c] = @ + 1]
    /\ cpc' = [cpc EXCEPT ![c] = "ensure"]
    /\ UNCHANGED cresult

\* a connection-level failure of caller c's attempt: retried once, then surfaced
retry_or_fail(c) ==
    IF cattempt[c] < MaxAttempts
    THEN /\ cattempt' = [cattempt EXCEPT ![c] = @ + 1]
         /\ cpc' = [cpc EXCEPT ![c] = "ensure"]
         /\ UNCHANGED cresult
    ELSE /\ cpc' = [cpc EXCEPT ![c] = "done"]
         /\ cresult' = [cresult EXCEPT ![c] = "transport_error"]
         /\ UNCHANGED cattempt

\* call(): a fresh id is allocated, registered and its request frame sent; a send
\* on a channel the peer has closed fails, which is a closure observed
register_and_send(c) ==
    LET id == Len(slots) + 1 IN
    /\ cid' = [cid EXCEPT ![c] = id]
    /\ cpc' = [cpc EXCEPT ![c] = "await"]
    /\ IF CurrentOpen
       THEN /\ slots' = Append(slots, UnsetSlot)
            /\ pending' = pending \cup {id}
            /\ UNCHANGED tstate
       ELSE /\ slots' = resolve_all_closed(Append(slots, UnsetSlot), pending \cup {id})
            /\ pending' = {}
            /\ tstate' = "Disconnected"
    /\ UNCHANGED <<phys, cattempt, cresult>>

\* a caller begins a logical call
call_begin(c) ==
    /\ cpc[c] \in {"idle", "done"}
    /\ ccalls < MaxCalls
    /\ ccalls' = ccalls + 1
    /\ cattempt' = [cattempt EXCEPT ![c] = 1]
    /\ cpc' = [cpc EXCEPT ![c] = "ensure"]
    /\ cresult' = [cresult EXCEPT ![c] = "none"]
    /\ UNCHANGED <<tstate, lockHolder, phys, handshakes, pending, slots, cid,
                   faults>>
    /\ UNCHANGED notrpc

\* call(): ensure Connected; a caller that finds no live channel goes for the region
ensure_connected(c) ==
    /\ cpc[c] = "ensure"
    /\ IF tstate = "Connected"
       THEN register_and_send(c)
       ELSE /\ cpc' = [cpc EXCEPT ![c] = "lock"]
            /\ UNCHANGED <<tstate, phys, pending, slots, cattempt, cid, cresult>>
    /\ UNCHANGED <<lockHolder, handshakes, ccalls, faults>>
    /\ UNCHANGED notrpc

\* variant: the caller that enters the region connects without looking again
lock_acquire_unchecked(c) ==
    /\ cpc[c] = "lock"
    /\ lockHolder = 0
    /\ lockHolder' = c
    /\ tstate' = "Connecting"
    /\ cpc' = [cpc EXCEPT ![c] = "connecting"]
    /\ UNCHANGED <<phys, pending, slots, cattempt, cid, cresult>>
    /\ UNCHANGED <<handshakes, ccalls, faults>>
    /\ UNCHANGED notrpc

\* the mutual-exclusion region is entered; whoever finds the channel live by then
\* leaves it at once and proceeds over the shared channel
lock_acquire(c) ==
    /\ cpc[c] = "lock"
    /\ lockHolder = 0
    /\ IF tstate = "Connected"
       THEN /\ register_and_send(c)
            /\ UNCHANGED lockHolder
       ELSE /\ lockHolder' = c
            /\ tstate' = "Connecting"
            /\ cpc' = [cpc EXCEPT ![c] = "connecting"]
            /\ UNCHANGED <<phys, pending, slots, cattempt, cid, cresult>>
    /\ UNCHANGED <<handshakes, ccalls, faults>>
    /\ UNCHANGED notrpc

\* the connect-plus-handshake of the caller in the region succeeds; it leaves the
\* region and sends its request
handshake_ok(c) ==
    /\ cpc[c] = "connecting"
    /\ lockHolder = c
    /\ phys' = Append(phys, "open")
    /\ handshakes' = handshakes + 1
    /\ tstate' = "Connected"
    /\ lockHolder' = 0
    /\ slots' = Append(slots, UnsetSlot)
    /\ pending' = pending \cup {Len(slots) + 1}
    /\ cid' = [cid EXCEPT ![c] = Len(slots) + 1]
    /\ cpc' = [cpc EXCEPT ![c] = "await"]
    /\ UNCHANGED <<cattempt, cresult, ccalls, faults>>
    /\ UNCHANGED notrpc

\* the connect-plus-handshake fails: a bounded wait elapsed (retried), or the
\* gateway rejected the credentials (surfaced)
handshake_fail(c, kind) ==
    /\ cpc[c] = "connecting"
    /\ lockHolder = c
    /\ tstate' = "Disconnected"
    /\ lockHolder' = 0
    /\ IF kind = "timeout"
       THEN retry_or_fail(c)
       ELSE /\ cpc' = [cpc EXCEPT ![c] = "done"]
            /\ cresult' = [cresult EXCEPT ![c] = "auth_error"]
            /\ UNCHANGED cattempt
    /\ faults < MaxFaults
    /\ faults' = faults + 1
    /\ UNCHANGED <<phys, handshakes, pending, slots, cid, ccalls>>
    /\ UNCHANGED notrpc

\* the receive task reads a response: it resolves the pending request of that id,
\* and discards a response no request is pending for
respond(id, ok) ==
    /\ tstate = "Connected"
    /\ CurrentOpen
    /\ id \in DOMAIN slots
    /\ IF id \in pending
       THEN /\ slots' = [slots EXCEPT ![id] =
                           [state |-> IF ok THEN "ok" ELSE "app_error", n |-> @.n + 1]]
            /\ pending' = pending \ {id}
       ELSE UNCHANGED <<slots, pending>>
    /\ UNCHANGED <<tstate, lockHolder, phys, handshakes, cpc, cattempt, cid, cresult,
                   ccalls, faults>>
    /\ UNCHANGED notrpc

\* the caller's await ends with its slot resolved; the slot's value is taken
await_result(c) ==
    /\ cpc[c] = "await"
    /\ slots[cid[c]].state \in {"ok", "app_error", "closed"}
    /\ IF slots[cid[c]].state = "closed"
       THEN retry_or_fail(c)
       ELSE /\ cpc' = [cpc EXCEPT ![c] = "done"]
            /\ cresult' = [cresult EXCEPT ![c] = slots[cid[c]].state]
            /\ UNCHANGED cattempt
    /\ slots' = [slots EXCEPT ![cid[c]].state = "taken"]
    /\ cid' = [cid EXCEPT ![c] = 0]
    /\ UNCHANGED <<tstate, lockHolder, phys, handshakes, pending, ccalls, faults>>
    /\ UNCHANGED notrpc

\* the caller's bounded wait elapses: a connection-level failure, which forces a
\* fresh reconnect
await_timeout(c) ==
    /\ cpc[c] = "await"
    /\ slots[cid[c]].state = "unset"
    /\ teardown
    /\ faults < MaxFaults
    /\ faults' = faults + 1
    /\ UNCHANGED <<lockHolder, handshakes, cpc, cattempt, cid, cresult, ccalls>>
    /\ UNCHANGED notrpc

\* the peer closes the physical channel
channel_drop ==
    /\ tstate = "Connected"
    /\ CurrentOpen
    /\ phys' = [phys EXCEPT ![Len(phys)] = "closed"]
    /\ faults < MaxFaults
    /\ faults' = faults + 1
    /\ UNCHANGED <<tstate, lockHolder, handshakes, pending, slots, cpc, cattempt, cid,
                   cresult, ccalls>>
    /\ UNCHANGED notrpc

\* the receive task observes the closure
observe_close ==
    /\ tstate = "Connected"
    /\ ~CurrentOpen
    /\ teardown
    /\ UNCHANGED <<lockHolder, handshakes, cpc, cattempt, cid, cresult, ccalls, faults>>
    /\ UNCHANGED notrpc

\* the credential side at rest while the transport runs
AuthQuiet == AuthInit /\ store = <<>> /\ envToken = None /\ config = <<>>
InitRpc == AuthQuiet /\ RpcInit /\ QueryInit /\ WaitInit /\ BucketInit

\* a gateway that answers every request, over a channel that stays up
NextRpcCalm ==
    \/ \E c \in Callers : call_begin(c)
    \/ \E c \in Callers : ensure_connected(c)
    \/ \E c \in Callers : lock_acquire(c)
    \/ \E c \in Callers : handshake_ok(c)
    \/ \E id \in pending : respond(id, TRUE)
    \/ \E c \in Callers : await_result(c)

NextRpc ==
    \/ \E c \in Callers : call_begin(c)
    \/ \E c \in Callers : ensure_connected(c)
    \/ \E c \in Callers : lock_acquire(c)
    \/ \E c \in Callers : handshake_ok(c)
    \/ \E c \in Callers, kind \in {"timeout", "rejected"} : handshake_fail(c, kind)
    \/ \E id \in DOMAIN slots, ok \in BOOLEAN : respond(id, ok)
    \/ \E c \in Callers : await_result(c)
    \/ \E c \in Callers : await_timeout(c)
    \/ channel_drop
    \/ observe_close

SpecRpc == InitRpc /\ [][NextRpc]_vars

\* the event loop runs every task that can run, and the gateway answers
SpecRpcCalm ==
    /\ InitRpc
    /\ [][NextRpcCalm]_vars
    /\ \A c \in Callers :
          /\ WF_vars(call_begin(c))
          /\ WF_vars(ensure_connected(c))
          /\ WF_vars(lock_acquire(c))
          /\ WF_vars(handshake_ok(c))
          /\ WF_vars(await_result(c))
    /\ WF_vars(\E id \in pending : respond(id, TRUE))

\* ------------------------------------------------------------ step shapes
\* a step that calls bootstrap() / connect()
BootstrapCalled == nOps' = nOps + 1 /\ op' = "bootstrap"
ConnectCalled == nOps' = nOps + 1 /\ op' = "connect"
\* a step in which _handshake reads the response to its request
ResponseRead == pc = "await_response" /\ pc' = "idle" /\ lastRes' # <<>>
ResOk(msg) == Get(msg, "ok", FALSE) = TRUE
ResToken(msg) ==
    IF "payload" \in DOMAIN msg /\ "auth" \in DOMAIN msg.payload
       /\ "deviceToken" \in DOMAIN msg.payload.auth
    THEN msg.payload.auth.deviceToken ELSE None
NonEmpty(t) == t \notin {None, ""}
\* the credentials a stored dict stands for
StoredCreds(d) ==
    [device_id |-> d.deviceId, private_key_pem |-> d.privateKeyPem,
     token |-> IF "token" \in DOMAIN d THEN d.token ELSE None]
\* the shared bootstrap token the configuration yields, None when it yields none
SharedToken ==
    IF NonEmpty(envToken) THEN envToken
    ELSE IF config # <<>> /\ "gateway" \in DOMAIN config[1]
            /\ "auth" \in DOMAIN config[1].gateway
            /\ "token" \in DOMAIN config[1].gateway.auth
            /\ NonEmpty(config[1].gateway.auth.token)
    THEN config[1].gateway.auth.token
    ELSE None
\* the payload the gateway rebuilds from a connect request to verify its signature
WirePayload(m) ==
    "v1|" \o m.params.device.id \o "|" \o m.params.client.id \o "|"
      \o m.params.client.mode \o "|" \o m.params.role \o "|" \o Join(m.params.scopes, ",")
      \o "|" \o ToString(m.params.device.signedAt) \o "|" \o m.params.auth.token
\* signature sig, as sent, verifies against payload under the request's public key
Verifies(m, payload) ==
    \E k \in Keys : /\ m.params.device.publicKey = B64Url(RawPublicKey(k))
                    /\ m.params.device.signature = B64Url(Ed25519Sign(k, payload))

\* the physical channels of the transport that are open
OpenChannels == {i \in DOMAIN phys : phys[i] = "open"}

\* ------------------------------------------------------------------- claims
\* C1: bootstrap on a store that already holds credentials returns exactly the
\* stored deviceId, private key and token, opens no channel, sends no message and
\* leaves the store unchanged; called again right after a bootstrap that returned,
\* it returns the same data.
C1_BootstrapIdempotent ==
    [][(BootstrapCalled /\ store # <<>>) =>
          /\ pc' = "idle"
          /\ outcome'.status = "returned"
          /\ outcome'.creds = <<StoredCreds(store[1])>>
          /\ store' = store
          /\ chans' = chans
          /\ sent' = sent
          /\ (op = "bootstrap" /\ outcome.status = "returned"
                => outcome'.creds = outcome.creds)]_vars
\* two bootstrap calls in a row, the second on an existing store
C1_Witness ==
    /\ nOps = 2 /\ op = "bootstrap" /\ pc = "idle"
    /\ outcome.path = "loaded" /\ store # <<>>

\* C2: when first-use pairing (empty store, bootstrap token available, challenge,
\* then a response accepting the request with a non-empty device token T) returns,
\* the store holds the deviceId derived from the key presented in the handshake
\* and token T, and the returned credentials are the stored ones.
C2_PairingPersisted ==
    (op = "bootstrap" /\ pc = "idle" /\ lastRes # <<>> /\ ResOk(lastRes)
       /\ NonEmpty(ResToken(lastRes)))
    => /\ outcome.status = "returned"
       /\ store # <<>>
       /\ \E k \in Keys :
             /\ sent[Len(sent)].msg.params.device.publicKey = B64Url(RawPublicKey(k))
             /\ store[1].deviceId = Sha256Hex(RawPublicKey(k))
             /\ store[1].privateKeyPem = PrivatePem(k)
       /\ store[1].token = ResToken(lastRes)
       /\ outcome.creds = <<StoredCreds(store[1])>>
       /\ held = outcome.creds
C2_Witness ==
    /\ op = "bootstrap" /\ pc = "idle" /\ lastRes # <<>> /\ ResOk(lastRes)
    /\ ResToken(lastRes) = "dev-2" /\ store # <<>> /\ store[1].token = "dev-2"

\* C3: when the gateway accepts bootstrap's handshake without a device token,
\* bootstrap raises the pairing-incomplete error, whose message is not that of an
\* authentication rejection, and the store is still empty.
C3_PairingIncomplete ==
    (op = "bootstrap" /\ pc = "idle" /\ lastRes # <<>> /\ ResOk(lastRes)
       /\ ~NonEmpty(ResToken(lastRes)))
    => /\ outcome.status = "raised"
       /\ outcome.err = RuntimeError(PairingIncompleteMsg)
       /\ \A d \in ErrorDetails \cup {None} :
             outcome.err.msg # "Connect failed: " \o (IF d = None THEN "None" ELSE d)
       /\ store = <<>>
C3_Witness ==
    /\ op = "bootstrap" /\ pc = "idle" /\ lastRes # <<>> /\ ResOk(lastRes)
    /\ ResToken(lastRes) = "" /\ outcome.status = "raised"

\* C4 as claimed: after any sequence of bootstrap and connect operations the
\* token in the store is the device token issued last.
C4_StoreHoldsLatestToken ==
    (pc = "idle" /\ latestIssued # None)
    => (store # <<>> /\ store[1].token = latestIssued)
\* C4 as amended: no step of connect writes the store; a connect whose handshake
\* is issued a non-empty token T returns with T in the caller's in-memory
\* credentials; a bootstrap whose handshake is issued T leaves T in the store.
C4_RotationInMemoryOnly ==
    [][/\ (op' = "connect" => store' = store)
       /\ (ResponseRead /\ ResOk(lastRes') /\ NonEmpty(ResToken(lastRes')))
            => IF op = "connect"
               THEN /\ outcome'.status = "returned"
                    /\ held'[1].token = ResToken(lastRes')
               ELSE /\ store' # <<>>
                    /\ store'[1].token = ResToken(lastRes')]_vars
\* a connect returned with a rotated token the store does not hold
C4_Witness ==
    /\ op = "connect" /\ pc = "idle" /\ outcome.status = "returned"
    /\ lastRes # <<>> /\ NonEmpty(ResToken(lastRes))
    /\ held[1].token = ResToken(lastRes)
    /\ store[1].token # held[1].token

\* C5 as claimed: any two handshake attempts of one identity sign different
\* payloads.
C5_NoPayloadReuse ==
    \A i, j \in DOMAIN sent :
       (i < j /\ sent[i].msg.params.device.id = sent[j].msg.params.device.id)
       => sent[i].payload # sent[j].payload
\* C5 as amended: two attempts of one identity whose clock readings differ (taken
\* at least a millisecond apart) sign different payloads, and the earlier
\* signature does not verify against the later payload.
C5_FreshTimestamp ==
    \A i, j \in DOMAIN sent :
       (i < j /\ sent[i].msg.params.device.id = sent[j].msg.params.device.id
          /\ sent[i].clockAt # sent[j].clockAt)
       => /\ sent[i].payload # sent[j].payload
          /\ WirePayload(sent[i].msg) # WirePayload(sent[j].msg)
          /\ ~Verifies(sent[i].msg, sent[j].payload)
\* two attempts of one identity with one auth token, a millisecond apart
C5_Witness ==
    \E i, j \in DOMAIN sent :
       /\ i < j
       /\ sent[i].msg.params.device.id = sent[j].msg.params.device.id
       /\ sent[i].msg.params.auth.token = sent[j].msg.params.auth.token
       /\ sent[j].clockAt = sent[i].clockAt + 1

\* C6: a response with ok false to the outstanding connect request makes the call
\* raise "Connect failed" with the gateway's error detail; the channel is closed,
\* none is returned, and the caller's credentials and the store are unchanged.
C6_RejectedHandshake ==
    [][(ResponseRead /\ ~ResOk(lastRes')) =>
          /\ outcome'.status = "raised"
          /\ outcome'.err.type = "RuntimeError"
          /\ outcome'.err.msg =
               "Connect failed: " \o (IF "error" \in DOMAIN lastRes'
                                      THEN lastRes'.error ELSE "None")
          /\ chans'[frame.ws] = "closed"
          /\ outcome'.ws = 0
          /\ held' = held
          /\ store' = store]_vars
C6_Witness ==
    /\ op = "connect" /\ pc = "idle" /\ lastRes # <<>> /\ ~ResOk(lastRes)
    /\ "error" \in DOMAIN lastRes
    /\ outcome.status = "raised" /\ chans[Len(chans)] = "closed"

\* C7: bootstrap on an empty store, when neither the environment nor the config
\* file yields a bootstrap token, raises a configuration error at once: no
\* channel is opened, no message is sent, the store is not written.
C7_ConfigurationError ==
    [][(BootstrapCalled /\ store = <<>> /\ SharedToken = None) =>
          /\ pc' = "idle"
          /\ outcome'.status = "raised"
          /\ outcome'.err \in {RuntimeError(ConfigNotFoundMsg),
                               RuntimeError(TokenNotFoundMsg)}
          /\ chans' = chans
          /\ sent' = sent
          /\ store' = store]_vars
C7_Witness ==
    /\ op = "bootstrap" /\ pc = "idle" /\ store = <<>> /\ SharedToken = None
    /\ envToken = "" /\ config # <<>>
    /\ outcome.status = "raised"

\* C8: the connect request of a connect call carries, in params.auth.token and in
\* the signed payload, the token issued last to the credentials it was given (the
\* stored one if none was issued since they were loaded); a handshake accepted
\* without a token leaves the credentials unchanged; bootstrap's handshake carries
\* the shared bootstrap token.
C8_CurrentToken ==
    [][/\ (Len(sent') = Len(sent) + 1) =>
            LET m == sent'[Len(sent')].msg
                expected == IF op = "connect" THEN expectTok ELSE SharedToken
            IN  /\ m.params.auth.token = expected
                /\ WirePayload(m) = sent'[Len(sent')].payload
                /\ Verifies(m, WirePayload(m))
       /\ (ResponseRead /\ op = "connect" /\ ResOk(lastRes')
             /\ ~NonEmpty(ResToken(lastRes')))
            => held' = held]_vars
\* a second connect with the same credentials sends the token the first was issued,
\* not the stored one
C8_Witness ==
    /\ nOps = 3 /\ op = "connect" /\ pc = "await_response"
    /\ Len(sent) = 2
    /\ sent[2].msg.params.auth.token = "dev-2"
    /\ sent[1].msg.params.auth.token = "dev-0"
    /\ store[1].token = "dev-0"

\* C9: with a gateway that answers and a channel that stays up, concurrent calls
\* from Disconnected perform exactly one connect-plus-handshake between them: at most one
\* caller is in the connect region, the others neither connect nor send while it
\* is, never two channels are open, and every call ends with a result over the one
\* channel.
C9_SingleHandshake ==
    /\ [](/\ handshakes <= 1
          /\ Cardinality(OpenChannels) <= 1
          /\ Cardinality({c \in Callers : cpc[c] = "connecting"}) <= 1
          /\ (tstate = "Connecting" =>
                /\ lockHolder \in Callers
                /\ pending = {}
                /\ \A c \in Callers \ {lockHolder} : cpc[c] \notin {"connecting", "await"})
          /\ \A c \in Callers : cpc[c] = "done" => cresult[c] = "ok")
    /\ <>(/\ ccalls = MaxCalls
          /\ handshakes = 1
          /\ \A c \in Callers : cpc[c] \in {"idle", "done"}
          /\ \E c \in Callers : cpc[c] = "done" /\ cresult[c] = "ok")
\* one caller connects while another waits for the region
C9_Witness ==
    /\ tstate = "Connecting" /\ handshakes = 0
    /\ \E c \in Callers : c # lockHolder /\ cpc[c] = "lock"

\* C10: the step that takes the transport from Connected back to Disconnected
\* resolves every pending request, once, with connection-closed and empties the
\* table; no slot is ever resolved twice, the table is empty whenever the
\* transport is not Connected, and a caller that awaits has its request pending or
\* its slot resolved.
C10_NoPendingSurvivesDrop ==
    /\ [][(tstate = "Connected" /\ tstate' = "Disconnected") =>
             /\ pending' = {}
             /\ \A id \in pending :
                   /\ slots[id] = [state |-> "unset", n |-> 0]
                   /\ slots'[id] = [state |-> "closed", n |-> 1]]_vars
    /\ [](/\ \A id \in DOMAIN slots : slots[id].n <= 1
          /\ \A id \in DOMAIN slots : slots[id].state = "unset" <=> id \in pending
          /\ (tstate # "Connected" => pending = {})
          /\ \A c \in Callers :
                cpc[c] = "await" => (cid[c] \in pending \/ slots[cid[c]].state # "unset"))
\* a drop with two calls in flight: both resolved closed, the table empty
C10_Witness ==
    /\ tstate = "Disconnected" /\ pending = {}
    /\ \E c1, c2 \in Callers :
          /\ c1 # c2
          /\ cpc[c1] = "await" /\ cpc[c2] = "await"
          /\ slots[cid[c1]].state = "closed" /\ slots[cid[c2]].state = "closed"

\* C11: a logical call makes at most two physical attempts; a connection-level
\* failure (its request resolved connection-closed, or its connect wait elapsed)
\* of the first attempt is retried from the ensure-connected step, and of
\* the second is surfaced as the call's one transport error; a response with ok
\* false ends the call at once with the application error, and is not retried.
C11_RetryOnce ==
    /\ [](\A c \in Callers : cattempt[c] <= MaxAttempts)
    /\ [][\A c \in Callers :
            /\ (cpc[c] = "await" /\ cpc'[c] # "await"
                  /\ slots[cid[c]].state = "closed") =>
                  /\ IF cattempt[c] = 1
                     THEN /\ cpc'[c] = "ensure"
                          /\ cattempt'[c] = 2
                          /\ cresult'[c] = "none"
                     ELSE /\ cpc'[c] = "done"
                          /\ cresult'[c] = "transport_error"
                          /\ cattempt'[c] = cattempt[c]
            /\ (cpc[c] = "await" /\ cpc'[c] # "await"
                  /\ slots[cid[c]].state = "app_error") =>
                  /\ cpc'[c] = "done"
                  /\ cresult'[c] = "app_error"
                  /\ cattempt'[c] = cattempt[c]
            /\ (cattempt'[c] # cattempt[c] /\ cpc[c] \notin {"idle", "done"}) =>
                  /\ cattempt[c] = 1 /\ cattempt'[c] = 2
                  /\ cpc[c] \in {"await", "connecting"}
                  /\ cpc[c] = "await" => slots[cid[c]].state = "closed"
            /\ (cresult'[c] = "transport_error" /\ cresult[c] # "transport_error") =>
                  /\ cattempt[c] = MaxAttempts
                  /\ cpc[c] \in {"await", "connecting"} /\ cpc'[c] = "done"
            /\ (cpc[c] = "done" /\ cpc'[c] = "done") => cresult'[c] = cresult[c]]_vars
\* one call surfaced a transport error on its second attempt while another ended
\* with an application error on its first
C11_Witness ==
    \E c1, c2 \in Callers :
       /\ cpc[c1] = "done" /\ cresult[c1] = "transport_error" /\ cattempt[c1] = 2
       /\ cpc[c2] = "done" /\ cresult[c2] = "app_error" /\ cattempt[c2] = 1

\* ------------------------------------------------------------ session files
\* Strings of file names and keys are sequences of tokens: the literals the code
\* tests for (":", ".jsonl", ".reset.") and opaque chunks between them.
StartsWith(str, prefix) ==
    Len(str) >= Len(prefix) /\ SubSeq(str, 1, Len(prefix)) = prefix
EndsWith(str, suffix) ==
    Len(str) >= Len(suffix)
    /\ SubSeq(str, Len(str) - Len(suffix) + 1, Len(str)) = suffix
Contains(str, sub) ==
    \E i \in 1..(Len(str) - Len(sub) + 1) : SubSeq(str, i, i + Len(sub) - 1) = sub
\* str.split(sep): the pieces between the occurrences of the token sep
RECURSIVE Split(_, _)
Split(str, sep) ==
    IF \A i \in DOMAIN str : str[i] # sep THEN <<str>>
    ELSE LET i == CHOOSE j \in DOMAIN str :
                     str[j] = sep /\ \A k \in 1..(j - 1) : str[k] # sep
         IN  <<SubSeq(str, 1, i - 1)>> \o Split(SubSeq(str, i + 1, Len(str)), sep)
\* seq[start:] for an int start, as Python slices
SliceFrom(seq, start) ==
    LET from == IF start < 0
                THEN (IF Len(seq) + start > 0 THEN Len(seq) + start ELSE 0)
                ELSE (IF start < Len(seq) THEN start ELSE Len(seq))
    IN  SubSeq(seq, from + 1, Len(seq))

\* AGENTS_DIR/<agent>/sessions/<name>
SessionPath(agent, name) == [agent |-> agent, name |-> name]
Paths ==
    {SessionPath(<<"main">>, <<"s1", ".jsonl">>),
     SessionPath(<<"main">>, <<"s1", ".jsonl", ".reset.", "t1">>),
     SessionPath(<<"main">>, <<"s2", ".jsonl", ".reset.", "t1">>),
     SessionPath(<<"main">>, <<"s2", ".jsonl", ".reset.", "t2">>)}
\* the id of a file's session header; <<>> for a file without a header
NoHeader == <<>>
HeaderIds == {<<"s1">>, <<"s2">>, <<"s1", ":", "x">>, NoHeader}
\* a file's content: its header id and the number of its message lines
FileSystems ==
    UNION {[S -> [id : HeaderIds, n : {n}]] : S \in SUBSET Paths, n \in 0..MaxLog}
\* the log entries the message lines of the file at path yield, oldest first
LogEntries(path, n) == [i \in 1..n |-> [file |-> path, line |-> i]]

_session_files(files) ==
    {f \in DOMAIN files :
        EndsWith(f.name, <<".jsonl">>) \/ Contains(f.name, <<".jsonl", ".reset.">>)}

\* <<>> for None
_parse_session_file(files, path) ==
    LET session_id == files[path].id
        agent_id == path.agent
    IN  IF session_id = NoHeader THEN <<>>
        ELSE <<[key |-> <<"agent", ":">> \o agent_id \o <<":">> \o session_id,
                session_id |-> session_id,
                agent_id |-> agent_id,
                log_entries |-> LogEntries(path, files[path].n)]>>

\* the files _find_session_file may return for key; {} when it returns None. The
\* archived file returned is the first match in directory order, which is any.
_find_session_file(files, key) ==
    LET parts == Split(key, ":") IN
    IF Len(parts) # 3 \/ parts[1] # <<"agent">> THEN {}
    ELSE LET agent_id == parts[2]
             session_id == parts[3]
             active == SessionPath(agent_id, session_id \o <<".jsonl">>)
         IN  IF ~\E f \in DOMAIN files : f.agent = agent_id THEN {}
             ELSE IF active \in DOMAIN files THEN {active}
             ELSE {f \in DOMAIN files :
                      /\ f.agent = agent_id
                      /\ StartsWith(f.name, session_id \o <<".jsonl", ".reset.">>)}

\* get_session_logs: "if len(entries) > limit: entries = entries[-limit:]"
most_recent(entries, limit) ==
    IF Len(entries) > limit THEN SliceFrom(entries, 0 - limit) ELSE entries

\* the results get_session_logs(key, limit) may return
get_session_logs(files, key, limit) ==
    LET found == _find_session_file(files, key) IN
    IF found = {}
    THEN {[key |-> key, limit |-> limit, status |-> "not_found", file |-> <<>>,
           entries |-> <<>>]}
    ELSE {LET parsed == _parse_session_file(files, path) IN
          IF parsed = <<>>
          THEN [key |-> key, limit |-> limit, status |-> "unparsable",
                file |-> <<path>>, entries |-> <<>>]
          ELSE [key |-> key, limit |-> limit, status |-> "ok", file |-> <<path>>,
                entries |-> most_recent(parsed[1].log_entries, limit)]
          : path \in found}

\* list_sessions with all_sessions=true over a range that holds every file, each
\* with a non-zero cost: the session entries, with the file each was parsed from
list_sessions(files) ==
    {[key |-> _parse_session_file(files, f)[1].key, file |-> f] :
        f \in {g \in _session_files(files) : _parse_session_file(files, g) # <<>>}}

\* keys a caller passes that no listing gave it
OtherKeys == {<<"agent", ":", "main", ":", "s9">>, <<"s1">>}

list_sessions_call ==
    /\ listed' = list_sessions(fs)
    /\ UNCHANGED <<fs, logsOut>>
    /\ UNCHANGED notquery

get_session_logs_call(key, limit) ==
    /\ \E r \in get_session_logs(fs, key, limit) : logsOut' = <<r>>
    /\ UNCHANGED <<fs, listed>>
    /\ UNCHANGED notquery

InitSessions ==
    /\ AuthQuiet /\ RpcInit /\ WaitInit /\ BucketInit
    /\ fs \in FileSystems
    /\ listed = {}
    /\ logsOut = <<>>

NextSessions ==
    \/ list_sessions_call
    \/ \E key \in {e.key : e \in listed} \cup OtherKeys, limit \in 0..MaxLimit :
          get_session_logs_call(key, limit)

SpecSessions == InitSessions /\ [][NextSessions]_vars

\* C12: get_session_logs returns the last min(limit, n) of the session's n log
\* entries, in their original order, for every limit >= 0.
C12_AtMostLimitMostRecent ==
    (logsOut # <<>> /\ logsOut[1].status = "ok" /\ logsOut[1].limit >= 0) =>
       LET path == logsOut[1].file[1]
           n == fs[path].n
           k == IF logsOut[1].limit < n THEN logsOut[1].limit ELSE n
       IN  /\ Len(logsOut[1].entries) = k
           /\ logsOut[1].entries = SubSeq(LogEntries(path, n), n - k + 1, n)

\* C13: the key of every session entry list_sessions outputs, passed to
\* get_session_logs, finds a file and yields the log entries of the file that
\* entry was parsed from: never "Session not found", never another file's entries.
C13_KeysRoundTrip ==
    (logsOut # <<>> /\ \E e \in listed : e.key = logsOut[1].key) =>
       /\ logsOut[1].status = "ok"
       /\ \A e \in listed :
             e.key = logsOut[1].key =>
                /\ logsOut[1].file = <<e.file>>
                /\ logsOut[1].entries =
                     most_recent(LogEntries(e.file, fs[e.file].n), logsOut[1].limit)

\* C14: within one attempt a connect request is sent only in the step that reads
\* the challenge, once per channel, and that step moves on to await the response
\* to that request's id; a message that is not the challenge (first loop) or not
\* the response to the request (second loop) is discarded with nothing else
\* changed; the attempt leaves the second loop only on a res message carrying the
\* request's id, and a channel is returned only on such a response with ok true.
C14_HandshakeOrder ==
    [][/\ (sent' # sent) =>
            /\ Len(sent') = Len(sent) + 1 /\ SubSeq(sent', 1, Len(sent)) = sent
            /\ pc = "await_challenge" /\ pc' = "await_response"
            /\ lastIn' = "challenge"
            /\ sent'[Len(sent')].chan = frame.ws
            /\ \A i \in DOMAIN sent : sent[i].chan # frame.ws
            /\ frame'.req_id = sent'[Len(sent')].msg.id
       /\ (pc = "await_challenge" /\ pc' = "await_response") => sent' # sent
       /\ (pc = "await_challenge" /\ lastIn' = "challenge" /\ lastIn # "challenge")
            => sent' # sent
       /\ (pc = "connecting") => pc' \in {"connecting", "await_challenge", "idle"}
       /\ (frame'.ndisc = frame.ndisc + 1) =>
            /\ pc \in {"await_challenge", "await_response"}
            /\ lastIn' # (IF pc = "await_challenge" THEN "challenge" ELSE "response")
            /\ frame' = [frame EXCEPT !.ndisc = frame.ndisc + 1]
            /\ <<pc', sent', chans', store', held', outcome', lastRes'>>
                 = <<pc, sent, chans, store, held, outcome, lastRes>>
       /\ (lastRes' # <<>> /\ lastRes = <<>>) =>
            /\ pc = "await_response" /\ lastIn' = "response"
            /\ lastRes'.type = "res"
            /\ lastRes'.id = sent[Len(sent)].msg.id
            /\ sent[Len(sent)].chan = frame.ws
       /\ (outcome'.ws # 0 /\ outcome' # outcome) =>
            /\ pc = "await_response" /\ lastIn' = "response"
            /\ ResOk(lastRes')
            /\ outcome'.ws = frame.ws /\ chans'[frame.ws] = "open"]_vars
\* the request is out, and a message that is not its response has been discarded
C14_Witness ==
    /\ pc = "await_response" /\ frame.ndisc = 1 /\ lastIn = "other"
    /\ sent # <<>> /\ sent[Len(sent)].chan = frame.ws
    /\ frame.req_id = sent[Len(sent)].msg.id

\* ---------------------------------------------------- handshake waits, timed
\* asyncio.wait_for(ws.recv(), timeout=5) / (..., timeout=10)
CHALLENGE_TIMEOUT == 5
RESPONSE_TIMEOUT == 10
recv_timeout_of(phase) ==
    IF phase = "challenge" THEN CHALLENGE_TIMEOUT ELSE RESPONSE_TIMEOUT

\* a time unit passes while ws.recv() waits
time_passes ==
    /\ wphase \in {"challenge", "response"}
    /\ wrecv < recv_timeout_of(wphase)
    /\ welapsed < MaxElapsed
    /\ wrecv' = wrecv + 1
    /\ welapsed' = welapsed + 1
    /\ UNCHANGED wphase
    /\ UNCHANGED notwait

\* wait_for's timeout elapses: TimeoutError ends the attempt
recv_expires ==
    /\ wphase \in {"challenge", "response"}
    /\ wrecv = recv_timeout_of(wphase)
    /\ wphase' = "timeout"
    /\ UNCHANGED <<wrecv, welapsed>>
    /\ UNCHANGED notwait

\* a message that is not the one awaited arrives: the loop calls wait_for again
recv_discard ==
    /\ wphase \in {"challenge", "response"}
    /\ wrecv' = 0
    /\ UNCHANGED <<wphase, welapsed>>
    /\ UNCHANGED notwait

\* the challenge arrives: the request is sent and the second loop begins
recv_challenge ==
    /\ wphase = "challenge"
    /\ wphase' = "response"
    /\ wrecv' = 0
    /\ welapsed' = 0
    /\ UNCHANGED notwait

\* the response to the request arrives: _handshake returns or raises
recv_response ==
    /\ wphase = "response"
    /\ wphase' = "done"
    /\ UNCHANGED <<wrecv, welapsed>>
    /\ UNCHANGED notwait

\* the channel is open and the first loop begins
InitWaits ==
    /\ AuthQuiet /\ RpcInit /\ QueryInit /\ BucketInit
    /\ wphase = "challenge" /\ wrecv = 0 /\ welapsed = 0

NextWaits ==
    \/ time_passes
    \/ recv_expires
    \/ recv_discard
    \/ recv_challenge
    \/ recv_response

SpecWaits == InitWaits /\ [][NextWaits]_vars

\* C15: a receive loop of the handshake is over, with a timeout at the latest, once
\* its bounded wait (5 time units for the challenge, 10 for the response) has
\* elapsed since the loop began, whatever else was delivered meanwhile.
C15_WaitsBounded ==
    /\ (wphase = "challenge" => welapsed <= CHALLENGE_TIMEOUT)
    /\ (wphase = "response" => welapsed <= RESPONSE_TIMEOUT)

\* C16: when a call that opened a channel has ended in an error (a wait elapsed in
\* either loop, a failure response, the peer closing, pairing incomplete), that
\* channel is closed; and bootstrap's pairing channel is closed on every outcome.
C16_NoLeakedChannel ==
    /\ (pc = "idle" /\ outcome.status = "raised"
          /\ outcome.path \in {"await_challenge", "await_response", "rejected",
                               "pairing_incomplete"})
         => chans[Len(chans)] = "closed"
    /\ (pc = "idle" /\ op = "bootstrap"
          /\ outcome.path \in {"paired", "pairing_incomplete"})
         => chans[Len(chans)] = "closed"

\* C17: the credentials a successful bootstrap returns carry a non-empty device
\* token, whatever record the store held, so a connect given them never raises
\* the "no device token stored" error.
C17_BootstrapYieldsToken ==
    /\ (op = "bootstrap" /\ pc = "idle" /\ outcome.status = "returned")
         => NonEmpty(outcome.creds[1].token)
    /\ ~(op = "connect" /\ pc = "idle" /\ outcome.status = "raised"
           /\ outcome.err.msg = NoDeviceTokenMsg)

\* ------------------------------------------------------------ period buckets
\* A date is a day number; day 0 is Monday 2025-12-22. A datetime is a number of
\* clock ticks since the start of day 0, two ticks to the second.
TicksPerSecond == 2
SecondsPerDay == 86400
\* the first days of the months around the dates of a query
Calendar ==
    <<[year |-> 2025, month |-> 12, first |-> 0 - 21],
      [year |-> 2026, month |-> 1, first |-> 10],
      [year |-> 2026, month |-> 2, first |-> 41],
      [year |-> 2026, month |-> 3, first |-> 69]>>
MonthIndex(d) ==
    CHOOSE i \in DOMAIN Calendar :
        /\ Calendar[i].first <= d
        /\ (i < Len(Calendar) => d < Calendar[i + 1].first)
YearOf(d) == Calendar[MonthIndex(d)].year
MonthOf(d) == Calendar[MonthIndex(d)].month
\* date(year, month, 1)
FirstOfMonth(year, month) ==
    Calendar[CHOOSE i \in DOMAIN Calendar :
                 Calendar[i].year = year /\ Calendar[i].month = month].first
\* date.weekday(): Monday is 0
weekday(d) == d % 7
MaxOf(a, b) == IF a >= b THEN a ELSE b
MinOf(a, b) == IF a <= b THEN a ELSE b
\* datetime(d.year, d.month, d.day, hour, minute, second, tzinfo=utc)
DateTime(d, hour, minute, second) ==
    (d * SecondsPerDay + hour * 3600 + minute * 60 + second) * TicksPerSecond
\* datetime.date()
DateOf(t) == t \div (SecondsPerDay * TicksPerSecond)

RECURSIVE WeekBuckets(_, _, _)
WeekBuckets(d, start, end) ==
    IF d > end THEN <<>>
    ELSE <<[b_start |-> MaxOf(d, start), b_end |-> MinOf(d + 6, end)]>>
           \o WeekBuckets(d + 7, start, end)

RECURSIVE MonthBuckets(_, _, _, _)
MonthBuckets(year, month, start, end) ==
    LET b_start == MaxOf(FirstOfMonth(year, month), start)
        next_first == IF month = 12 THEN FirstOfMonth(year + 1, 1)
                      ELSE FirstOfMonth(year, month + 1)
        b_end == MinOf(next_first - 1, end)
    IN  IF b_start > end THEN <<>>
        ELSE <<[b_start |-> b_start, b_end |-> b_end]>>
               \o MonthBuckets(YearOf(next_first), MonthOf(next_first), start, end)

_compute_buckets(start, end, period) ==
    IF period = "day"
    THEN [i \in 1..(end - start + 1) |-> [b_start |-> start + i - 1,
                                          b_end |-> start + i - 1]]
    ELSE IF period = "week"
    THEN WeekBuckets(start - weekday(start), start, end)
    ELSE MonthBuckets(YearOf(start), MonthOf(start), start, end)

\* the last instant a range ending on date d takes in: that day, 23:59:59
range_end_of(d) == DateTime(d, 23, 59, 59)

\* _scan_sessions over session start times; a file's mtime is taken to be its
\* session's start time
_scan_sessions(start, end, times) ==
    {st \in times :
        /\ ~(DateOf(st) < start)
        /\ ~(st < DateTime(start, 0, 0, 0) \/ st > range_end_of(end))}

\* "range_start <= s['start_time'] <= range_end" of get_usage and list_sessions
bucket_sessions(b, all_sessions) ==
    {st \in all_sessions :
        DateTime(b.b_start, 0, 0, 0) <= st /\ st <= range_end_of(b.b_end)}

\* the periods of get_usage / list_sessions, each with the sessions it counts
result_periods(start, end, period, times) ==
    LET buckets == _compute_buckets(start, end, period)
        all_sessions == _scan_sessions(start, end, times)
    IN  [scanned |-> all_sessions,
         periods |-> [i \in DOMAIN buckets |->
                        [b_start |-> buckets[i].b_start, b_end |-> buckets[i].b_end,
                         sessions |-> bucket_sessions(buckets[i], all_sessions)]]]

get_usage_call ==
    /\ periodsOut' = <<[tool |-> "get_usage"]
                        @@ result_periods(qstart, qend, qperiod, {sessionAt})>>
    /\ UNCHANGED <<qstart, qend, qperiod, sessionAt>>
    /\ UNCHANGED notbucket

\* list_sessions with all_sessions=true, the session having a non-zero cost
list_sessions_periods_call ==
    /\ periodsOut' = <<[tool |-> "list_sessions"]
                        @@ result_periods(qstart, qend, qperiod, {sessionAt})>>
    /\ UNCHANGED <<qstart, qend, qperiod, sessionAt>>
    /\ UNCHANGED notbucket

\* times of day a session starts at: midnight, noon, 23:59:59 and half a second on
StartOffsets ==
    {DateTime(0, 0, 0, 0), DateTime(0, 12, 0, 0), DateTime(0, 23, 59, 59),
     DateTime(0, 23, 59, 59) + 1}

InitBuckets ==
    /\ AuthQuiet /\ RpcInit /\ QueryInit /\ WaitInit
    /\ qstart \in 0..MaxDay
    /\ qend \in qstart..MinOf(qstart + MaxSpan, MaxDay)
    /\ qperiod \in {"day", "week", "month"}
    /\ sessionAt \in {DateTime(d, 0, 0, 0) + o : d \in qstart..qend, o \in StartOffsets}
    /\ periodsOut = <<>>

NextBuckets ==
    \/ get_usage_call
    \/ list_sessions_periods_call

SpecBuckets == InitBuckets /\ [][NextBuckets]_vars

\* C18: for start <= end the periods are consecutive, do not overlap and cover
\* exactly [start, end], and every session the scan returns is counted in exactly
\* one period of get_usage and of list_sessions.
C18_BucketsPartition ==
    (periodsOut # <<>>) =>
       LET B == periodsOut[1].periods IN
       /\ Len(B) >= 1
       /\ B[1].b_start = qstart /\ B[Len(B)].b_end = qend
       /\ \A i \in DOMAIN B : B[i].b_start <= B[i].b_end
       /\ \A i \in 1..(Len(B) - 1) : B[i + 1].b_start = B[i].b_end + 1
       /\ \A st \in periodsOut[1].scanned :
             Cardinality({i \in DOMAIN B : st \in B[i].sessions}) = 1
====
